---- MODULE Spec2Model ----
(***************************************************************************)
(* Model of src/main/Hrxn_methods.py: the two heat-of-reaction evaluators  *)
(* anl0_hrxn and sum_Hrxn, called by a caller that owns the energy table   *)
(* delE.                                                                   *)
(*                                                                         *)
(* Numbers.  Python floats are modelled as fixed-point numbers: the        *)
(* integer n stands for n / Scale.  Sums and differences are exact, a      *)
(* product or quotient is rounded to the nearest multiple of 1 / Scale.    *)
(* The conversion factor 2625.499748 is kept to its last digit (whole part *)
(* and millionths).  All intermediate values stay inside 32 bits.          *)
(*                                                                         *)
(* Exceptions.  A call ends either in Return(v) or in KeyError(k), k the   *)
(* first key whose lookup failed, in Python's evaluation order.            *)
(***************************************************************************)
EXTENDS Integers, Sequences, FiniteSets, TLC

VARIABLES delE, last, prev, calls

vars == <<delE, last, prev, calls>>

(***************************************************************************)
(* Bounds of the model.                                                    *)
(***************************************************************************)
MaxCalls == 2
MaxArgs == 3

(***************************************************************************)
(* Fixed-point arithmetic.                                                 *)
(***************************************************************************)
Scale == 1000

Float(i) == i * Scale

Abs(x) == IF x < 0 THEN 0 - x ELSE x

Round(num, den) == (num + (den \div 2)) \div den

FMul(a, b) == Round(a * b, Scale)

FDiv(a, b) == Round(a * Scale, b)

\* x ** 3.7 for the three cardinal numbers the code uses, at Scale.
Pow37(x) ==
    CASE x = 3 -> 58257
      [] x = 4 -> 168897
      [] x = 5 -> 385646

(***************************************************************************)
(* Constants of anl0_hrxn (lines 37-43).                                   *)
(***************************************************************************)
hartree_to_kJpermole_whole == 2625
hartree_to_kJpermole_millionths == 499748

\* x * hartree_to_kJpermole
to_kJpermole(x) ==
    x * hartree_to_kJpermole_whole
      + Round(x * hartree_to_kJpermole_millionths, Scale * Scale)

cbs_tz_qz == FDiv(Pow37(3), Pow37(4) - Pow37(3))
cbs_tz_qz_low == 0 - cbs_tz_qz
cbs_tz_qz_high == Float(1) + cbs_tz_qz
cbs_qz_5z == FDiv(Pow37(4), Pow37(5) - Pow37(4))
cbs_qz_5z_low == 0 - cbs_qz_5z
\* Sign slip in the upper weight: 1.0 - cbs_qz_5z.
cbs_qz_5z_high_slip == Float(1) - cbs_qz_5z

cbs_qz_5z_high == Float(1) + cbs_qz_5z

(***************************************************************************)
(* Outcomes of a call.                                                     *)
(***************************************************************************)
Return(v) == [kind |-> "return", value |-> v, key |-> ""]

KeyError(k) == [kind |-> "KeyError", value |-> 0, key |-> k]

\* dict.keys()
keys(d) == DOMAIN d

\* d[k1], d[k2], ... evaluated left to right: the first key that is absent,
\* "" when every lookup succeeds.
FirstMissing(d, ks) ==
    IF \A i \in 1..Len(ks) : ks[i] \in keys(d) THEN ""
    ELSE ks[CHOOSE i \in 1..Len(ks) :
              /\ ks[i] \notin keys(d)
              /\ \A j \in 1..(i - 1) : ks[j] \in keys(d)]

\* Truth value of a string operand of `and`.
Truthy(s) == s # ""

(***************************************************************************)
(* anl0_hrxn, statement by statement.  Each step takes the outcome so far: *)
(* a raised KeyError propagates through the remaining statements.          *)
(***************************************************************************)
\* The zero-point energy read with a default: delE.get('zpe', 0.0).
base_Hrxn_default(d) ==
    LET miss == FirstMissing(d, <<"avqz", "av5z">>)
        zpe == IF "zpe" \in keys(d) THEN d["zpe"] ELSE 0
    IN  IF miss # "" THEN KeyError(miss)
        ELSE LET cbs == FMul(cbs_qz_5z_low, d["avqz"])
                          + FMul(cbs_qz_5z_high, d["av5z"])
             IN  Return(to_kJpermole(cbs + zpe))

\* lines 45-46
base_Hrxn(d) ==
    LET miss == FirstMissing(d, <<"avqz", "av5z", "zpe">>)
    IN  IF miss # "" THEN KeyError(miss)
        ELSE LET cbs == FMul(cbs_qz_5z_low, d["avqz"])
                          + FMul(cbs_qz_5z_high, d["av5z"])
             IN  Return(to_kJpermole(cbs + d["zpe"]))

\* lines 50-53
core_correction(d, r) ==
    IF r.kind # "return" THEN r
    ELSE IF /\ Truthy("core_0_tz") /\ Truthy("core_X_tz") /\ Truthy("core_0_qz")
            /\ "core_X_qz" \in keys(d)
    THEN LET miss == FirstMissing(d, <<"core_0_tz", "core_X_tz",
                                       "core_0_qz", "core_X_qz">>)
         IN  IF miss # "" THEN KeyError(miss)
             ELSE LET core == FMul(cbs_tz_qz_low, d["core_0_tz"] - d["core_X_tz"])
                               + FMul(cbs_tz_qz_high, d["core_0_qz"] - d["core_X_qz"])
                  IN  IF Abs(to_kJpermole(core)) < Float(4)
                      THEN Return(r.value + to_kJpermole(core))
                      ELSE r
    ELSE r

\* The group entered only when both of its keys are present.
ccTQ_correction_allkeys(d, r) ==
    IF r.kind # "return" THEN r
    ELSE IF "ccQ" \in keys(d) /\ "ccT" \in keys(d)
    THEN LET ccTQ == d["ccQ"] - d["ccT"]
         IN  IF Abs(to_kJpermole(ccTQ)) < Float(4)
             THEN Return(r.value + to_kJpermole(ccTQ))
             ELSE r
    ELSE r

\* lines 54-57
ccTQ_correction(d, r) ==
    IF r.kind # "return" THEN r
    ELSE IF Truthy("ccQ") /\ "ccT" \in keys(d)
    THEN LET miss == FirstMissing(d, <<"ccQ", "ccT">>)
         IN  IF miss # "" THEN KeyError(miss)
             ELSE LET ccTQ == d["ccQ"] - d["ccT"]
                  IN  IF Abs(to_kJpermole(ccTQ)) < Float(4)
                      THEN Return(r.value + to_kJpermole(ccTQ))
                      ELSE r
    ELSE r

\* The relativistic group chained to the coupled-cluster group with elif.
ci_correction_elif(d, r) ==
    IF r.kind # "return" THEN r
    ELSE IF Truthy("ccQ") /\ "ccT" \in keys(d) THEN r
    ELSE IF Truthy("ci_DK") /\ "ci_NREL" \in keys(d)
    THEN LET miss == FirstMissing(d, <<"ci_DK", "ci_NREL">>)
         IN  IF miss # "" THEN KeyError(miss)
             ELSE LET ci == d["ci_DK"] - d["ci_NREL"]
                  IN  IF Abs(to_kJpermole(ci)) < Float(4)
                      THEN Return(r.value + to_kJpermole(ci))
                      ELSE r
    ELSE r

\* lines 58-61
ci_correction(d, r) ==
    IF r.kind # "return" THEN r
    ELSE IF Truthy("ci_DK") /\ "ci_NREL" \in keys(d)
    THEN LET miss == FirstMissing(d, <<"ci_DK", "ci_NREL">>)
         IN  IF miss # "" THEN KeyError(miss)
             ELSE LET ci == d["ci_DK"] - d["ci_NREL"]
                  IN  IF Abs(to_kJpermole(ci)) < Float(4)
                      THEN Return(r.value + to_kJpermole(ci))
                      ELSE r
    ELSE r

\* The anharmonicity threshold with <= in place of <.
anharm_correction_le(d, r) ==
    IF r.kind # "return" THEN r
    ELSE IF Truthy("zpe_anharm") /\ "zpe_harm" \in keys(d)
    THEN LET miss == FirstMissing(d, <<"zpe_anharm", "zpe_harm">>)
         IN  IF miss # "" THEN KeyError(miss)
             ELSE LET anharm == d["zpe_anharm"] - d["zpe_harm"]
                  IN  IF Abs(anharm) <= Float(4)
                      THEN Return(r.value + anharm)
                      ELSE r
    ELSE r

\* The anharmonicity correction converted like the other three.
anharm_correction_times_K(d, r) ==
    IF r.kind # "return" THEN r
    ELSE IF Truthy("zpe_anharm") /\ "zpe_harm" \in keys(d)
    THEN LET miss == FirstMissing(d, <<"zpe_anharm", "zpe_harm">>)
         IN  IF miss # "" THEN KeyError(miss)
             ELSE LET anharm == d["zpe_anharm"] - d["zpe_harm"]
                  IN  IF Abs(to_kJpermole(anharm)) < Float(4)
                      THEN Return(r.value + to_kJpermole(anharm))
                      ELSE r
    ELSE r

\* lines 62-65
anharm_correction(d, r) ==
    IF r.kind # "return" THEN r
    ELSE IF Truthy("zpe_anharm") /\ "zpe_harm" \in keys(d)
    THEN LET miss == FirstMissing(d, <<"zpe_anharm", "zpe_harm">>)
         IN  IF miss # "" THEN KeyError(miss)
             ELSE LET anharm == d["zpe_anharm"] - d["zpe_harm"]
                  IN  IF Abs(anharm) < Float(4)
                      THEN Return(r.value + anharm)
                      ELSE r
    ELSE r

anl0_hrxn(d) ==
    anharm_correction(d,
        ci_correction(d,
            ccTQ_correction(d,
                core_correction(d, base_Hrxn(d)))))

(***************************************************************************)
(* sum_Hrxn (lines 85-87).                                                 *)
(***************************************************************************)
RECURSIVE sum(_)
sum(s) == IF s = <<>> THEN 0 ELSE sum(SubSeq(s, 1, Len(s) - 1)) + s[Len(s)]

\* The listed keys summed as a set: a key listed twice counted once.
sum_Hrxn_distinct(d, args) ==
    LET miss == FirstMissing(d, args)
        ks == {args[i] : i \in 1..Len(args)}
        n == Cardinality(ks)
        order == CHOOSE q \in [1..n -> ks] : \A k \in ks : \E i \in 1..n : q[i] = k
    IN  IF miss # "" THEN KeyError(miss)
        ELSE Return(to_kJpermole(sum([i \in 1..n |-> d[order[i]]])))

\* Absent keys skipped: delE[k] for k in args if k in delE.
sum_Hrxn_skip(d, args) ==
    Return(to_kJpermole(sum([i \in 1..Len(args) |->
        IF args[i] \in keys(d) THEN d[args[i]] ELSE 0])))

\* The sum started from the value the previous call returned (a module-level
\* accumulator) in place of 0.
sum_Hrxn_accumulating(d, args) ==
    LET miss == FirstMissing(d, args)
    IN  IF miss # "" THEN KeyError(miss)
        ELSE Return(last.out.value
                      + to_kJpermole(sum([i \in 1..Len(args) |-> d[args[i]]])))

sum_Hrxn(d, args) ==
    LET miss == FirstMissing(d, args)
    IN  IF miss # "" THEN KeyError(miss)
        ELSE Return(to_kJpermole(sum([i \in 1..Len(args) |-> d[args[i]]])))

(***************************************************************************)
(* The caller's energy tables.                                             *)
(***************************************************************************)
RequiredKeys == {"avqz", "av5z", "zpe"}

CorrectionKeys == {"core_0_tz", "core_X_tz", "core_0_qz", "core_X_qz",
                   "ccQ", "ccT", "ci_DK", "ci_NREL", "zpe_anharm", "zpe_harm"}

Keys == RequiredKeys \cup CorrectionKeys

\* The values a key takes in the tables explored (Hartree at Scale; the two
\* zero-point keys of the anharmonicity group are used by the code as kJ/mol).
Vals(k) ==
    CASE k = "avqz" -> {-50, 120}
      [] k = "av5z" -> {-52}
      [] k = "zpe" -> {7}
      [] k = "core_0_tz" -> {2}
      [] k = "core_X_tz" -> {1}
      [] k = "core_0_qz" -> {3, 4}
      [] k = "core_X_qz" -> {2}
      [] k = "ccQ" -> {2, -1}
      [] k = "ccT" -> {1}
      [] k = "ci_DK" -> {0, 3}
      [] k = "ci_NREL" -> {1}
      [] k = "zpe_anharm" -> {3, 4000, 4001, -4000}
      [] k = "zpe_harm" -> {1}

EmptyTable == [k \in {} |-> 0]

\* Every table whose keys are a subset of ks, each present key holding one of
\* its values.
RECURSIVE TablesOver(_)
TablesOver(ks) ==
    IF ks = {} THEN {EmptyTable}
    ELSE LET k == CHOOSE x \in ks : TRUE
             rest == TablesOver(ks \ {k})
         IN  rest \cup {t @@ (k :> v) : t \in rest, v \in Vals(k)}

\* The narrower family used when both evaluators are called.
CallerKeys == {"avqz", "av5z", "zpe", "ccQ", "ccT"}

NoCall == [fn |-> "none", args |-> <<>>, out |-> Return(0)]

Init ==
    /\ delE \in TablesOver(Keys)
    /\ last = NoCall
    /\ prev = NoCall
    /\ calls = 0

InitCaller ==
    /\ delE \in TablesOver(CallerKeys)
    /\ last = NoCall
    /\ prev = NoCall
    /\ calls = 0

\* Hrxn = anl0_hrxn(delE): delE is only read.
Anl0Call ==
    /\ calls < MaxCalls
    /\ last' = [fn |-> "anl0_hrxn", args |-> <<>>, out |-> anl0_hrxn(delE)]
    /\ prev' = last
    /\ calls' = calls + 1
    /\ delE' = delE

\* The key names the caller passes to sum_Hrxn.
ArgKeys == {"zpe", "ccQ"}

ArgLists == UNION {[1..n -> ArgKeys] : n \in 0..MaxArgs}

\* Hrxn = sum_Hrxn(delE, *args): delE is only read.
SumCall ==
    /\ calls < MaxCalls
    /\ \E args \in ArgLists :
          last' = [fn |-> "sum_Hrxn", args |-> args, out |-> sum_Hrxn(delE, args)]
    /\ prev' = last
    /\ calls' = calls + 1
    /\ delE' = delE

Next == Anl0Call

NextCaller == Anl0Call \/ SumCall

Spec == Init /\ [][Next]_vars

SpecCaller == InitCaller /\ [][NextCaller]_vars

(***************************************************************************)
(* Vocabulary of the properties: the correction groups as the docstring    *)
(* and the specification list them, and the corrections as the             *)
(* specification states them.                                              *)
(***************************************************************************)
GroupNames == {"core", "cc", "ci", "anharm"}

GroupKeys(g) ==
    CASE g = "core" -> <<"core_0_tz", "core_X_tz", "core_0_qz", "core_X_qz">>
      [] g = "cc" -> <<"ccQ", "ccT">>
      [] g = "ci" -> <<"ci_DK", "ci_NREL">>
      [] g = "anharm" -> <<"zpe_anharm", "zpe_harm">>

GroupSet(g) == {GroupKeys(g)[i] : i \in 1..Len(GroupKeys(g))}

LastKey(g) == GroupKeys(g)[Len(GroupKeys(g))]

Without(d, ks) == [k \in (DOMAIN d) \ ks |-> d[k]]

HasRequired(d) == RequiredKeys \subseteq DOMAIN d

Complete(d, g) == GroupSet(g) \subseteq DOMAIN d

Absent(d, g) == GroupSet(g) \cap DOMAIN d = {}

Partial(d, g) == ~Complete(d, g) /\ ~Absent(d, g)

Anl0Called == last.fn = "anl0_hrxn"

SumCalled == last.fn = "sum_Hrxn"

w_low == 0 - FDiv(Pow37(4), Pow37(5) - Pow37(4))
w_high == Float(1) - w_low
w_low_tz == 0 - FDiv(Pow37(3), Pow37(4) - Pow37(3))
w_high_tz == Float(1) - w_low_tz

\* The correction of a fully populated group, in the unit of the table.
Correction(d, g) ==
    CASE g = "core" -> FMul(w_low_tz, d["core_0_tz"] - d["core_X_tz"])
                         + FMul(w_high_tz, d["core_0_qz"] - d["core_X_qz"])
      [] g = "cc" -> d["ccQ"] - d["ccT"]
      [] g = "ci" -> d["ci_DK"] - d["ci_NREL"]
      [] g = "anharm" -> d["zpe_anharm"] - d["zpe_harm"]

\* The same correction in kJ/mol.
CorrectionKJ(d, g) ==
    IF g = "anharm" THEN Correction(d, g) ELSE to_kJpermole(Correction(d, g))

RECURSIVE SumOver(_, _)
SumOver(f, S) ==
    IF S = {} THEN 0
    ELSE LET x == CHOOSE y \in S : TRUE IN f[x] + SumOver(f, S \ {x})

(***************************************************************************)
(* C1: anl0_hrxn on a table with the three required keys and only a        *)
(* proper subset of one correction group's keys (the other groups whole or *)
(* absent) returns without error, and returns what it returns for the      *)
(* table with none of that group's keys.                                   *)
(***************************************************************************)
C1_PartialGroupIsSkipped ==
    (Anl0Called /\ HasRequired(delE)) =>
        \A g \in GroupNames :
            (/\ Partial(delE, g)
             /\ \A h \in GroupNames \ {g} : Complete(delE, h) \/ Absent(delE, h))
            => /\ last.out.kind = "return"
               /\ last.out = anl0_hrxn(Without(delE, GroupSet(g)))

(***************************************************************************)
(* C2: on a table whose keys are exactly avqz, av5z and zpe, anl0_hrxn     *)
(* returns ((w_low * avqz + w_high * av5z) + zpe) * K with                 *)
(* w_low = -(4^3.7 / (5^3.7 - 4^3.7)), w_high = 1 - w_low, so that         *)
(* w_low + w_high = 1; no correction contributes.                          *)
(***************************************************************************)
C2_RequiredOnly ==
    (Anl0Called /\ DOMAIN delE = RequiredKeys) =>
        /\ w_low + w_high = Float(1)
        /\ last.out = Return(to_kJpermole(FMul(w_low, delE["avqz"])
                                            + FMul(w_high, delE["av5z"])
                                            + delE["zpe"]))

C2_Witness ==
    /\ Anl0Called
    /\ DOMAIN delE = RequiredKeys
    /\ delE["avqz"] = 120
    /\ last.out.kind = "return"
    /\ last.out.value # 0

C4_MissingRequired ==
    (Anl0Called /\ ~HasRequired(delE)) =>
        /\ last.out.kind = "KeyError"
        /\ last.out.key \in RequiredKeys \ DOMAIN delE

C4_Witness ==
    /\ Anl0Called
    /\ RequiredKeys \cap DOMAIN delE = {"avqz", "av5z"}
    /\ CorrectionKeys \subseteq DOMAIN delE
    /\ last.out = KeyError("zpe")

(***************************************************************************)
(* C5: when every listed key is in the table, sum_Hrxn returns K times the *)
(* sum of the table's values over the listed keys, a key listed n times    *)
(* counted n times; with no key listed it returns 0.0.                     *)
(***************************************************************************)
C5_SumOfListedKeys ==
    (SumCalled /\ \A i \in 1..Len(last.args) : last.args[i] \in DOMAIN delE) =>
        LET times(k) == Cardinality({i \in 1..Len(last.args) : last.args[i] = k})
            f == [k \in DOMAIN delE |-> times(k) * delE[k]]
        IN  /\ last.out = Return(to_kJpermole(SumOver(f, DOMAIN delE)))
            /\ (last.args = <<>> => last.out = Return(0))

C5_Witness ==
    /\ SumCalled
    /\ Len(last.args) = 3
    /\ last.args[1] = last.args[3]
    /\ last.args[1] # last.args[2]
    /\ last.out.kind = "return"
    /\ last.out.value = to_kJpermole(2 * delE[last.args[1]] + delE[last.args[2]])
    /\ delE[last.args[1]] # 0

(***************************************************************************)
(* C6: sum_Hrxn ends in a KeyError for a listed key that is absent         *)
(* whenever some listed key is absent from the table, wherever that key    *)
(* stands in the list.                                                     *)
(***************************************************************************)
C6_SumMissingKey ==
    (SumCalled /\ \E i \in 1..Len(last.args) : last.args[i] \notin DOMAIN delE) =>
        /\ last.out.kind = "KeyError"
        /\ last.out.key \notin DOMAIN delE
        /\ \E i \in 1..Len(last.args) : last.args[i] = last.out.key

C6_Witness ==
    /\ SumCalled
    /\ Len(last.args) = 3
    /\ last.args[1] \in DOMAIN delE
    /\ last.args[2] \in DOMAIN delE
    /\ last.args[3] \notin DOMAIN delE
    /\ last.out = KeyError(last.args[3])

(***************************************************************************)
(* C7: a call of anl0_hrxn or sum_Hrxn, returning or failing, leaves the   *)
(* caller's table as it was, and a call that repeats the previous call's   *)
(* function and key list on the same table ends as the previous one did.   *)
(***************************************************************************)
C7_Pure ==
    /\ [][delE' = delE]_vars
    /\ []((calls >= 2 /\ prev.fn = last.fn /\ prev.args = last.args)
            => prev.out = last.out)

C7_Witness ==
    /\ calls >= 2
    /\ prev.fn = "sum_Hrxn"
    /\ last.fn = "sum_Hrxn"
    /\ prev.args = last.args
    /\ Len(last.args) >= 2
    /\ last.out.kind = "return"
    /\ last.out.value # 0
    /\ prev.out = last.out

(***************************************************************************)
(* C8: whether anl0_hrxn computes a correction group depends only on the   *)
(* group's last-named key.  When that key is absent the group is skipped   *)
(* whatever other keys of the group are present; when it is present every  *)
(* key of the group is read, so the call fails with a KeyError if another  *)
(* key of the group is absent (for the first absent key of the group, when *)
(* no other group is in that situation).                                   *)
(***************************************************************************)
Broken(d, g) == LastKey(g) \in DOMAIN d /\ ~Complete(d, g)

C8_LastKeyGates ==
    Anl0Called =>
        \A g \in GroupNames :
            /\ LastKey(g) \notin DOMAIN delE
                 => last.out = anl0_hrxn(Without(delE, GroupSet(g)))
            /\ (HasRequired(delE) /\ Broken(delE, g))
                 => /\ last.out.kind = "KeyError"
                    /\ (\A h \in GroupNames \ {g} : ~Broken(delE, h))
                         => last.out.key \in GroupSet(g) \ DOMAIN delE
                            /\ \A i \in 1..Len(GroupKeys(g)) :
                                 GroupKeys(g)[i] = last.out.key
                                   => \A j \in 1..(i - 1) :
                                        GroupKeys(g)[j] \in DOMAIN delE

C8_Witness ==
    /\ Anl0Called
    /\ HasRequired(delE)
    /\ "core_X_qz" \in DOMAIN delE
    /\ "core_0_tz" \in DOMAIN delE
    /\ "core_X_tz" \notin DOMAIN delE
    /\ "zpe_anharm" \in DOMAIN delE
    /\ "zpe_harm" \notin DOMAIN delE
    /\ last.out = KeyError("core_X_tz")

(***************************************************************************)
(* C9: the four groups are gated one by one.  On a table with the required *)
(* keys where each group is whole or absent (all keys present included),   *)
(* the result is the base value plus the sum of exactly the corrections of *)
(* the whole groups whose own magnitude is < 4.0 kJ/mol, whatever the      *)
(* other groups hold and whatever the running total is.                    *)
(***************************************************************************)
C9_IndependentGates ==
    (/\ Anl0Called
     /\ HasRequired(delE)
     /\ \A g \in GroupNames : Complete(delE, g) \/ Absent(delE, g)) =>
        LET b == anl0_hrxn(Without(delE, CorrectionKeys))
            applied == {g \in GroupNames :
                          Complete(delE, g) /\ Abs(CorrectionKJ(delE, g)) < Float(4)}
            f == [g \in applied |-> CorrectionKJ(delE, g)]
        IN  /\ b.kind = "return"
            /\ last.out = Return(b.value + SumOver(f, applied))

C9_Witness ==
    /\ Anl0Called
    /\ DOMAIN delE = Keys
    /\ Abs(CorrectionKJ(delE, "core")) < Float(4)
    /\ Abs(CorrectionKJ(delE, "cc")) < Float(4)
    /\ Abs(CorrectionKJ(delE, "core") + CorrectionKJ(delE, "cc")) >= Float(4)
    /\ Abs(CorrectionKJ(delE, "ci")) >= Float(4)
    /\ Abs(CorrectionKJ(delE, "anharm")) < Float(4)
    /\ last.out.value = anl0_hrxn(Without(delE, CorrectionKeys)).value
                          + CorrectionKJ(delE, "core") + CorrectionKJ(delE, "cc")
                          + CorrectionKJ(delE, "anharm")

(***************************************************************************)
(* C10: the anharmonicity correction zpe_anharm - zpe_harm is taken as     *)
(* kJ/mol: it is compared with 4.0 and added as it stands, while the       *)
(* core-valence, coupled-cluster and relativistic corrections are compared *)
(* with 4.0 and added after multiplication by K.                           *)
(***************************************************************************)
C10_AnharmAlreadyKJ ==
    (/\ Anl0Called
     /\ HasRequired(delE)
     /\ \A g \in GroupNames : Complete(delE, g) \/ Absent(delE, g)) =>
        \A g \in {h \in GroupNames : Complete(delE, h)} :
            LET c == Correction(delE, g)
                rest == anl0_hrxn(Without(delE, GroupSet(g)))
            IN  IF g = "anharm"
                THEN last.out = IF Abs(c) < Float(4)
                                THEN Return(rest.value + c) ELSE rest
                ELSE last.out = IF Abs(to_kJpermole(c)) < Float(4)
                                THEN Return(rest.value + to_kJpermole(c)) ELSE rest

C10_Witness ==
    /\ Anl0Called
    /\ DOMAIN delE = Keys
    /\ Correction(delE, "anharm") # 0
    /\ Abs(Correction(delE, "anharm")) < Float(4)
    /\ Abs(to_kJpermole(Correction(delE, "anharm"))) >= Float(4)
    /\ last.out.value = anl0_hrxn(Without(delE, GroupSet("anharm"))).value
                          + Correction(delE, "anharm")
    /\ Abs(Correction(delE, "ci")) < Float(4)
    /\ Abs(to_kJpermole(Correction(delE, "ci"))) >= Float(4)
    /\ last.out = anl0_hrxn(Without(delE, GroupSet("ci")))

====
